---- MODULE Spec2Model ----
(***************************************************************************)
(* Model of trest/cache/backends/rediscache.py: the process-wide           *)
(* connection pool registry, client construction, and the Redis-backed     *)
(* cache verbs acting on a remote store, alone and under concurrent        *)
(* callers; and of the route registration of trest/router.py.              *)
(***************************************************************************)
EXTENDS Integers, Sequences, FiniteSets, TLC

VARIABLES
    connection_pools,  \* CacheConnectionPool._connection_pools: identity -> pool object (0: no entry)
    pools,             \* every pool object instantiated so far: pools[i] is the identity pool i was built for
    pc,                \* per constructing thread: its position in RedisClient._init
    params,            \* per thread: the (server, params) its client is constructed with
    ident,             \* per thread: the connection_identifier computed by _init
    made,              \* per thread: the pool object it instantiated (0: none)
    client_pool,       \* per thread: the connection_pool its client holds (0: none)
    store,             \* the remote database: wire key -> entry
    default_timeout,   \* CacheClient.default_timeout of the cache client
    workload,          \* the raw keys and the versions the callers of this run use
    last,              \* the last cache verb called: its key, version and delta, and what it returned or raised
    batch,             \* the set_many call in progress: its arguments, its place in the loop, its pipeline
    pipeline_len_bool, \* the redis-py in use: TRUE when bool(pipeline) is len(pipeline) (no __bool__ on Pipeline)
    calls,             \* per concurrent caller: the verb it is in, its arguments and locals, its position
    router             \* get_handlers: the decorated functions of the handler class, the place in the loop, the handlers dict, the classes

poolVars == <<connection_pools, pools, pc, params, ident, made, client_pool>>
batchVars == <<batch, pipeline_len_bool>>
cacheVars ==
    <<store, default_timeout, workload, last, batch, pipeline_len_bool, calls, router>>
vars == <<connection_pools, pools, pc, params, ident, made, client_pool,
          store, default_timeout, workload, last, batch, pipeline_len_bool, calls,
          router>>

-----------------------------------------------------------------------------
(* Bounds *)

NClients == 3
NCallers == 2
MaxRoutes == 3
MaxTimeout == 1
MaxInt == 2

-----------------------------------------------------------------------------
(* Client construction and the pool registry *)

Threads == 1..NClients

\* The server string is held split at its last ':' (server.rsplit(':', 1));
\* colon = FALSE is a server string without ':' (a unix socket path).
TcpServer(h, p) == [colon |-> TRUE, host |-> h, port |-> p, path |-> ""]
UnixServer(p) == [colon |-> FALSE, host |-> "", port |-> "", path |-> p]

Config(srv, db, poolcls, parsercls) ==
    [server |-> srv, db |-> db, password |-> "", pool_class |-> poolcls,
     parser_class |-> parsercls]

\* The constructor arguments the clients are built with.
Configs ==
    { Config(TcpServer("h1", "6379"), "0", "redis.ConnectionPool", "None"),
      Config(TcpServer("h1", "6379"), "1", "redis.ConnectionPool", "None"),
      Config(UnixServer("/tmp/redis.sock"), "0", "redis.ConnectionPool", "None"),
      Config(TcpServer("h1", "x"), "0", "redis.ConnectionPool", "None"),
      Config(TcpServer("h1", "6379"), "x", "redis.ConnectionPool", "None"),
      Config(TcpServer("h1", "6379"), "0", "redis.NoSuchPool", "None"),
      Config(TcpServer("h1", "6379"), "0", "redis.ConnectionPool", "redis.connection.NoSuchParser"),
      Config(TcpServer("h1", "6379"), "0", "ConnectionPool", "None") }

\* int(text): the texts that parse, and their values.
IntTexts == {"0", "1", "6379"}
ParseInt(text) ==
    CASE text = "0" -> 0
      [] text = "1" -> 1
      [] text = "6379" -> 6379
      [] OTHER -> -1

\* import_object(mod_path) / getattr(mod, cls_name): the selectors that resolve.
Importable == {"redis.ConnectionPool", "redis.BlockingConnectionPool",
               "redis.connection.PythonParser"}

NoIdent ==
    [host |-> "", port |-> -1, db |-> -1, password |-> "", parser_class |-> "",
     unix_socket_path |-> "", connection_pool_class |-> ""]

\* RedisClient.parser_class: DefaultParser when PARSER_CLASS is unset.
parser_class(cfg) ==
    IF cfg.parser_class = "None" THEN "redis.connection.DefaultParser"
    ELSE cfg.parser_class

\* cls.rsplit('.', 1) of a selector with no '.' in it is one part only
Undotted == {"ConnectionPool"}

\* The ConfigError raised while _init computes host, port, db, parser class
\* and pool class, in the order the code evaluates them ("" : none raised).
ConfigError(cfg) ==
    IF cfg.server.colon /\ cfg.server.port \notin IntTexts
        THEN "port value must be an integer"
    ELSE IF cfg.db \notin IntTexts
        THEN "db value must be an integer"
    ELSE IF cfg.parser_class # "None" /\ cfg.parser_class \notin Importable
        THEN "Could not find parser class"
    ELSE IF cfg.pool_class \notin Importable
        THEN "Could not find connection pool class"
    ELSE ""

\* connection_identifier = (host, port, db, password, parser_class,
\*                          unix_socket_path, connection_pool_class)
connection_identifier(cfg) ==
    [host |-> IF cfg.server.colon THEN cfg.server.host ELSE "",
     port |-> IF cfg.server.colon THEN ParseInt(cfg.server.port) ELSE -1,
     db |-> ParseInt(cfg.db),
     password |-> cfg.password,
     parser_class |-> parser_class(cfg),
     unix_socket_path |-> IF cfg.server.colon THEN "" ELSE cfg.server.path,
     connection_pool_class |-> cfg.pool_class]

\* The exception _init raises before it calls pool._get_connection_pool
\* ("" : none): a ConfigError, or the ValueError of unpacking
\* mod_path, cls_name = cls.rsplit('.', 1) for a selector with no '.'
Raised(cfg) ==
    IF cfg.server.colon /\ cfg.server.port \notin IntTexts THEN "ConfigError"
    ELSE IF cfg.db \notin IntTexts THEN "ConfigError"
    ELSE IF cfg.parser_class # "None" /\ cfg.parser_class \in Undotted THEN "ValueError"
    ELSE IF cfg.parser_class # "None" /\ cfg.parser_class \notin Importable
        THEN "ConfigError"
    ELSE IF cfg.pool_class \in Undotted THEN "ValueError"
    ELSE IF ConfigError(cfg) # "" THEN "ConfigError"
    ELSE ""

Identities == { connection_identifier(cfg) : cfg \in {c \in Configs : Raised(c) = ""} }

\* RedisClient._init up to the call of pool._get_connection_pool.
InitClient(t) ==
    /\ pc[t] = "new"
    /\ \E cfg \in Configs :
         /\ params' = [params EXCEPT ![t] = cfg]
         /\ IF Raised(cfg) # ""
               THEN /\ pc' = [pc EXCEPT ![t] = Raised(cfg)]
                    /\ UNCHANGED ident
               ELSE /\ pc' = [pc EXCEPT ![t] = "lookup"]
                    /\ ident' = [ident EXCEPT ![t] = connection_identifier(cfg)]
    /\ UNCHANGED <<connection_pools, pools, made, client_pool>>
    /\ UNCHANGED cacheVars

\* A lookup that never finds the entry.
RegistryMissAlways(reg, id) == TRUE

\* if not self._connection_pools.get(connection_identifier):
RegistryMiss(reg, id) == reg[id] = 0

Lookup(t) ==
    /\ pc[t] = "lookup"
    /\ pc' = [pc EXCEPT ![t] = IF RegistryMiss(connection_pools, ident[t])
                                  THEN "create" ELSE "return"]
    /\ UNCHANGED <<connection_pools, pools, params, ident, made, client_pool>>
    /\ UNCHANGED cacheVars

\* connection_pool_class(**kwargs): a new pool object
CreatePool(t) ==
    /\ pc[t] = "create"
    /\ pools' = Append(pools, ident[t])
    /\ made' = [made EXCEPT ![t] = Len(pools) + 1]
    /\ pc' = [pc EXCEPT ![t] = "store"]
    /\ UNCHANGED <<connection_pools, params, ident, client_pool>>
    /\ UNCHANGED cacheVars

\* self._connection_pools[connection_identifier] = <the new pool>
StoredRegistry(reg, id, p) == [reg EXCEPT ![id] = p]

StorePool(t) ==
    /\ pc[t] = "store"
    /\ connection_pools' = StoredRegistry(connection_pools, ident[t], made[t])
    /\ pc' = [pc EXCEPT ![t] = "return"]
    /\ UNCHANGED <<pools, params, ident, made, client_pool>>
    /\ UNCHANGED cacheVars

\* return self._connection_pools[connection_identifier], then
\* self._client = redis.StrictRedis(connection_pool=connection_pool, ...)
ReturnPool(t) ==
    /\ pc[t] = "return"
    /\ client_pool' = [client_pool EXCEPT ![t] = connection_pools[ident[t]]]
    /\ pc' = [pc EXCEPT ![t] = "done"]
    /\ UNCHANGED <<connection_pools, pools, params, ident, made>>
    /\ UNCHANGED cacheVars

Step(t) ==
    \/ InitClient(t)
    \/ Lookup(t)
    \/ CreatePool(t)
    \/ StorePool(t)
    \/ ReturnPool(t)

\* No constructor call is in progress in a thread other than t.
Alone(t) ==
    \A u \in Threads \ {t} : pc[u] \in {"new", "done", "ConfigError", "ValueError"}

\* The registry is empty at import; T are the threads that will each
\* construct a client.
InitPoolVars(T) ==
    /\ connection_pools = [id \in Identities |-> 0]
    /\ pools = << >>
    /\ pc = [t \in T |-> "new"]
    /\ params = [t \in T |-> Config(UnixServer(""), "", "", "")]
    /\ ident = [t \in T |-> NoIdent]
    /\ made = [t \in T |-> 0]
    /\ client_pool = [t \in T |-> 0]

-----------------------------------------------------------------------------
(* router.get_handlers.  A class is [base, attrs]: the class it derives    *)
(* from (0: the framework's base) and, per HTTP method name, the decorated *)
(* function set as that attribute on the class itself (0: none).  The      *)
(* handler class of the module is class 1; functions are named by their    *)
(* place in inspect.getmembers' list.                                      *)

Paths == {"/x", "/y"}
Methods == {"get", "post"}

NoAttrs == [m \in Methods |-> 0]
NoRouter ==
    [routes |-> << >>, i |-> 1, handlers |-> [p \in Paths |-> 0],
     classes |-> << [base |-> 0, attrs |-> NoAttrs] >>]

\* The decorated functions of a handler class, as getmembers lists them:
\* each with the _path and the _method its decorator gave it, no two with
\* the same path and method.
RouteLists ==
    UNION { { r \in [1..n -> [path : Paths, method : Methods]] :
                \A i, j \in 1..n : r[i] = r[j] => i = j }
            : n \in 0..MaxRoutes }

\* handler2: the handler class itself while handlers is empty or the path
\* is in it already, else a new class type(path_md5, (handler,), {})
RouteClass(handlers, path, nclasses) ==
    IF (\A p \in DOMAIN handlers : handlers[p] = 0) \/ handlers[path] # 0
        THEN 1
        ELSE nclasses + 1

\* getattr(cls, m): the attribute of the class or of the nearest base having it
RECURSIVE GetAttr(_, _, _)
GetAttr(classes, cls, m) ==
    IF cls = 0 THEN 0
    ELSE IF classes[cls].attrs[m] # 0 THEN classes[cls].attrs[m]
    ELSE GetAttr(classes, classes[cls].base, m)

\* One turn of "for name, val in params"
RegisterRoute ==
    /\ router.i <= Len(router.routes)
    /\ LET val == router.routes[router.i]
           handler2 == RouteClass(router.handlers, val.path, Len(router.classes))
           known == IF handler2 > Len(router.classes)
                        THEN Append(router.classes, [base |-> 1, attrs |-> NoAttrs])
                        ELSE router.classes
       IN  router' = [router EXCEPT
                         !.classes = [known EXCEPT ![handler2].attrs[val.method] = router.i],
                         !.handlers[val.path] = handler2,
                         !.i = router.i + 1]
    /\ UNCHANGED <<store, default_timeout, workload, last, calls>>
    /\ UNCHANGED batchVars
    /\ UNCHANGED poolVars

RouterNext == RegisterRoute

-----------------------------------------------------------------------------
(* Python objects.  One record shape for all of them:                      *)
(*   t   the type: "int", "bool", "float", "str", "NoneType", "bytes",     *)
(*       "DEFAULT"                                                         *)
(*   n   the number of an int, 0/1 of a bool, twice the number of a float  *)
(*   s   the text of a str                                                 *)
(*   enc for bytes: "ascii" (the decimal text of n) or "pickle" (the       *)
(*       pickle of the object of type pt with number n and text s)         *)

PyInt(n) == [t |-> "int", n |-> n, s |-> "", enc |-> "", pt |-> ""]
PyBool(b) == [t |-> "bool", n |-> IF b THEN 1 ELSE 0, s |-> "", enc |-> "", pt |-> ""]
\* the float h/2
PyFloat(h) == [t |-> "float", n |-> h, s |-> "", enc |-> "", pt |-> ""]
PyStr(s) == [t |-> "str", n |-> 0, s |-> s, enc |-> "", pt |-> ""]
PyNone == [t |-> "NoneType", n |-> 0, s |-> "", enc |-> "", pt |-> ""]
\* base.DEFAULT_TIMEOUT, the sentinel object
DEFAULT_TIMEOUT == [t |-> "DEFAULT", n |-> 0, s |-> "", enc |-> "", pt |-> ""]

\* str(n).encode(): how redis-py sends an int argument, and how the server
\* holds and returns a number
AsciiBytes(n) == [t |-> "bytes", n |-> n, s |-> "", enc |-> "ascii", pt |-> "int"]

\* pickle.dumps(v)
PickleDumps(v) == [t |-> "bytes", n |-> v.n, s |-> v.s, enc |-> "pickle", pt |-> v.t]

\* isinstance(v, int): bool is a subclass of int
IsInt(v) == v.t \in {"int", "bool"}
IsBool(v) == v.t = "bool"
\* bool(v); the bytes of the model are never empty
Truthy(v) ==
    CASE v.t \in {"int", "bool", "float"} -> v.n # 0
      [] v.t = "str" -> v.s # ""
      [] v.t = "bytes" -> TRUE
      [] v.t = "DEFAULT" -> TRUE
      [] OTHER -> FALSE

\* What a call returns or raises.
Return(v) == [exc |-> "", val |-> v]
Raise(e) == [exc |-> e, val |-> PyNone]

\* pickle.loads(b): the pickled object, or UnpicklingError for bytes that
\* are not a pickle (a decimal text never holds the STOP opcode '.')
PickleLoads(b) ==
    IF b.t = "bytes" /\ b.enc = "pickle"
        THEN Return([t |-> b.pt, n |-> b.n, s |-> b.s, enc |-> "", pt |-> ""])
    ELSE IF b.t = "bytes" THEN Raise("UnpicklingError")
    ELSE Raise("TypeError")

-----------------------------------------------------------------------------
(* Keys *)

KeyPrefix == "p"
ClientVersion == 1
VersionNone == 0

Keys == {"a", "b"}
Versions == {1, 2}

RawKey(s) == [ck |-> FALSE, s |-> s]
CacheKey(s) == [ck |-> TRUE, s |-> s]

\* prefix, version and key joined by ':'
KeyFunc(s, prefix, version) == prefix \o ":" \o ToString(version) \o ":" \o s

\* the wire keys of the keys and versions in use, each formatted once
KeyTable == [s \in Keys |-> [v \in Versions |-> KeyFunc(s, KeyPrefix, v)]]

\* CacheClient.make_key: the client's version when none is given
BaseMakeKey(s, version) ==
    KeyTable[s][IF version = VersionNone THEN ClientVersion ELSE version]

\* the raw key a wire key was built from
RawOf(w) == CHOOSE s \in Keys : \E v \in Versions : KeyTable[s][v] = w

\* A make_key that encodes again, under the version it is given.
make_key_again(key, version) ==
    CacheKey(BaseMakeKey(IF key.ck THEN RawOf(key.s) ELSE key.s, version))

\* RedisClient.make_key
make_key(key, version) ==
    IF ~key.ck THEN CacheKey(BaseMakeKey(key.s, version)) ELSE key

WireKeys == { BaseMakeKey(k, v) : k \in Keys, v \in Versions }

-----------------------------------------------------------------------------
(* The remote store and the redis-py commands the cache issues.            *)
(* An entry's ttl is what the TTL command answers: -1 no expiry, else the  *)
(* remaining seconds, 0 while less than a whole second remains.            *)

Absent == [present |-> FALSE, val |-> PyNone, ttl |-> -2]
Entry(val, ttl) == [present |-> TRUE, val |-> val, ttl |-> ttl]

\* redis-py encodes a command's value argument: bytes as they are, an int
\* as its decimal text
Encode(v) == IF v.t = "bytes" THEN v ELSE AsciiBytes(v.n)

\* client.get(key): the bytes held, None when the key is absent
client_get(db, k) == IF db[k].present THEN db[k].val ELSE PyNone
\* client.set(key, value)
client_set(db, k, v) == [db EXCEPT ![k] = Entry(Encode(v), -1)]
\* client.setex(key, timeout, value)
client_setex(db, k, timeout, v) == [db EXCEPT ![k] = Entry(Encode(v), timeout)]
\* A conditional write that does not look at the key.
setnx_always(db, k) == TRUE

\* client.setnx(key, value): whether the key was written
setnx_added(db, k) == ~db[k].present
client_setnx(db, k, v) ==
    IF setnx_added(db, k) THEN [db EXCEPT ![k] = Entry(Encode(v), -1)] ELSE db
\* An expire that sets nothing.
client_expire_lost(db, k, timeout) == db

\* client.expire(key, timeout)
client_expire(db, k, timeout) ==
    IF db[k].present THEN [db EXCEPT ![k].ttl = timeout] ELSE db
\* client.delete(key)
client_delete(db, k) == [db EXCEPT ![k] = Absent]
\* client.flushdb()
client_flushdb(db) == [k \in DOMAIN db |-> Absent]
\* client.exists(key)
client_exists(db, k) == db[k].present
\* client.ttl(key) of redis.StrictRedis: the TTL reply as it is, -1 for a
\* key with no expiry and -2 for a key that does not exist
client_ttl(db, k) == PyInt(db[k].ttl)
\* client.incr(key, delta): INCRBY works on a decimal text only and keeps
\* the expiry; any other value is a ResponseError
incr_rejected(db, k) == db[k].present /\ db[k].val.enc # "ascii"
incr_reply(db, k, delta) == (IF db[k].present THEN db[k].val.n ELSE 0) + delta
client_incr(db, k, delta) ==
    IF db[k].present
        THEN [db EXCEPT ![k].val = AsciiBytes(incr_reply(db, k, delta))]
        ELSE [db EXCEPT ![k] = Entry(AsciiBytes(delta), -1)]
\* client.mget(keys)
client_mget(db, ks) == [i \in 1..Len(ks) |-> client_get(db, ks[i])]

-----------------------------------------------------------------------------
(* RedisCache: each verb as a function of the database it acts on.  A verb *)
(* yields [db, exc, val]: the database afterwards, what it raised ("" :    *)
(* nothing) and what it returned.                                          *)

Outcome(db, exc, val) == [db |-> db, exc |-> exc, val |-> val]

\* RedisCache.unpickle
unpickle(value) ==
    IF (Truthy(value) /\ ~IsInt(value)) \/ IsBool(value)
        THEN PickleLoads(value)
        ELSE Return(value)

\* RedisCache.get
get(db, key, default, version) ==
    LET k == make_key(key, version)
        value == client_get(db, k.s)
    IN  IF value = PyNone THEN Return(default) ELSE unpickle(value)

\* RedisCache._set: the database afterwards
_set_db(db, k, value, timeout, _add_only) ==
    IF timeout = PyNone \/ timeout = PyInt(0)
        THEN IF _add_only THEN client_setnx(db, k, value)
                          ELSE client_set(db, k, value)
    ELSE IF timeout.n > 0
        THEN IF _add_only
                THEN IF setnx_added(db, k)
                        THEN client_expire(client_setnx(db, k, value), k, timeout.n)
                        ELSE db
                ELSE client_setex(db, k, timeout.n, value)
    ELSE db

\* RedisCache._set: its result
_set_result(db, k, timeout, _add_only) ==
    IF timeout = PyNone \/ timeout = PyInt(0)
        THEN IF _add_only THEN setnx_added(db, k) ELSE TRUE
    ELSE IF timeout.n > 0
        THEN IF _add_only THEN setnx_added(db, k) ELSE TRUE
    ELSE FALSE

\* int(x) of a number: a float is cut toward zero
IntOf(x) ==
    IF x.t = "float"
        THEN PyInt(IF x.n >= 0 THEN x.n \div 2 ELSE -((-x.n) \div 2))
        ELSE PyInt(x.n)

\* A resolution that takes DEFAULT_TIMEOUT for "no expiry".
ResolveTimeoutNoDefault(timeout, dflt) ==
    LET t == IF timeout = DEFAULT_TIMEOUT THEN PyNone ELSE timeout
    IN  IF t # PyNone THEN IntOf(t) ELSE t

\* timeout as set resolves it: DEFAULT_TIMEOUT is the client's default, and
\* a timeout that is not None goes through int()
ResolveTimeout(timeout, dflt) ==
    LET t == IF timeout = DEFAULT_TIMEOUT THEN dflt ELSE timeout
    IN  IF t # PyNone THEN IntOf(t) ELSE t

\* the value set hands to _set: pickled unless a non-boolean int
Serialized(value) ==
    IF ~IsInt(value) \/ IsBool(value) THEN PickleDumps(value) ELSE value

\* RedisCache.set
set(db, dflt, key, value, timeout, version, _add_only) ==
    LET k == make_key(key, version)
        t == ResolveTimeout(timeout, dflt)
    IN  Outcome(_set_db(db, k.s, Serialized(value), t, _add_only), "",
                PyBool(_set_result(db, k.s, t, _add_only)))

\* RedisCache.add: the version argument is not passed on
add(db, dflt, key, value, timeout, version) ==
    set(db, dflt, key, value, timeout, VersionNone, TRUE)

\* RedisCache.delete
delete(db, key, version) ==
    Outcome(client_delete(db, make_key(key, version).s), "", PyNone)

\* RedisCache.clear
clear(db) == Outcome(client_flushdb(db), "", PyNone)

\* A sum that forgets delta.
PlusNothing(v, delta) == Return(v)

\* value + delta of the fallback in incr: a number, or TypeError
Plus(v, delta) ==
    IF IsInt(v) THEN Return(PyInt(v.n + delta))
    ELSE IF v.t = "float" THEN Return(PyFloat(v.n + 2 * delta))
    ELSE Raise("TypeError")

\* RedisCache.incr
incr(db, dflt, key, delta, version) ==
    LET k == make_key(key, version)
    IN  IF ~client_exists(db, k.s)
            THEN Outcome(db, "ValueError", PyNone)
        ELSE IF ~incr_rejected(db, k.s)
            THEN Outcome(client_incr(db, k.s, delta), "",
                         PyInt(incr_reply(db, k.s, delta)))
        ELSE LET g == get(db, k, PyNone, VersionNone)
                 sum == IF g.exc = "" THEN Plus(g.val, delta) ELSE g
             IN  IF sum.exc # ""
                     THEN Outcome(db, sum.exc, PyNone)
                     ELSE Outcome(set(db, dflt, k, sum.val, DEFAULT_TIMEOUT,
                                      VersionNone, FALSE).db, "", sum.val)

\* RedisCache.ttl
ttl(db, key, version) ==
    LET k == make_key(key, version)
    IN  IF client_exists(db, k.s) THEN Return(client_ttl(db, k.s))
        ELSE Return(PyInt(0))

\* RedisCache.incr_version
incr_version(db, dflt, key, delta, version) ==
    LET v == IF version = VersionNone THEN ClientVersion ELSE version
        old_key == make_key(key, v)
        value == get(db, old_key, PyNone, v)
        t == client_ttl(db, old_key.s)
        new_key == make_key(key, v + delta)
    IN  IF value.exc # "" THEN Outcome(db, value.exc, PyNone)
        ELSE IF value.val = PyNone THEN Outcome(db, "ValueError", PyNone)
        ELSE LET written == set(db, dflt, new_key, value.val, t, VersionNone, FALSE).db
             IN  Outcome(delete(written, old_key, VersionNone).db, "", PyInt(v + delta))

\* recovered_data[k] = v on a SortedDict: a new key goes last, a key
\* already there keeps its place
DictSet(items, k, v) ==
    IF \E i \in 1..Len(items) : items[i].key = k
        THEN [i \in 1..Len(items) |->
                 IF items[i].key = k THEN [key |-> k, val |-> v] ELSE items[i]]
        ELSE Append(items, [key |-> k, val |-> v])

\* safestr(value) of a bytes value: its text
safestr(v) == IF v.t = "bytes" THEN PyStr(v.s) ELSE v

\* The loop of get_many over zip(new_keys, results), from position i on,
\* with recovered_data = items so far: [exc, items]
RECURSIVE get_many_loop(_, _, _, _, _)
get_many_loop(db, keys, version, i, items) ==
    IF i > Len(keys) THEN [exc |-> "", items |-> items]
    ELSE LET new_key == make_key(RawKey(keys[i]), version)
             value == client_mget(db, <<new_key.s>>)[1]
             u == unpickle(value)
         IN  IF value = PyNone
                 THEN get_many_loop(db, keys, version, i + 1, items)
             ELSE IF u.exc # "" THEN [exc |-> u.exc, items |-> << >>]
             ELSE get_many_loop(db, keys, version, i + 1,
                                DictSet(items, keys[i], safestr(u.val)))

\* RedisCache.get_many
get_many(db, keys, version) ==
    IF keys = << >> THEN [exc |-> "", items |-> << >>]
    ELSE get_many_loop(db, keys, version, 1, << >>)

\* bool(pipeline), the test of "if not client" in set: the length of the
\* command stack where Pipeline defines __len__ only, else True
PipelineBool(stack, len_bool) == IF len_bool THEN Len(stack) > 0 ELSE TRUE

\* The commands _set sends to its client for a write that is not add-only.
_set_commands(k, value, timeout) ==
    IF timeout = PyNone \/ timeout = PyInt(0)
        THEN << [cmd |-> "SET", key |-> k, val |-> value, timeout |-> -1] >>
    ELSE IF timeout.n > 0
        THEN << [cmd |-> "SETEX", key |-> k, val |-> value, timeout |-> timeout.n] >>
    ELSE << >>

\* pipeline.execute(): the queued commands run on the store in their order
RECURSIVE pipeline_execute(_, _, _)
pipeline_execute(db, stack, i) ==
    IF i > Len(stack) THEN db
    ELSE LET c == stack[i]
         IN  pipeline_execute(IF c.cmd = "SET" THEN client_set(db, c.key, c.val)
                              ELSE client_setex(db, c.key, c.timeout, c.val),
                              stack, i + 1)

-----------------------------------------------------------------------------
(* The calls made on the cache, one action per verb *)

Values == {PyInt(1), PyNone, PyBool(TRUE)}
Timeouts ==
    {DEFAULT_TIMEOUT, PyNone, PyInt(-1), PyFloat(-1), PyInt(0), PyInt(MaxTimeout)}
\* the client's configured default: a number of seconds
DefaultTimeouts == {PyInt(MaxTimeout)}
Deltas == {1, 2}
\* the runs use two keys under the client's version, or one key under two versions
Workloads == { [keys |-> {"a", "b"}, versions |-> {1}],
               [keys |-> {"a"}, versions |-> {1, 2}] }
VersionArgs == {VersionNone} \cup (workload.versions \ {ClientVersion})
KeySeqs == UNION { [1..n -> workload.keys] : n \in 0..Cardinality(workload.keys) }

NoCall ==
    [op |-> "", key |-> "", version |-> VersionNone, delta |-> 0,
     keys |-> << >>, exc |-> "", ret |-> PyNone, items |-> << >>]

Called(op, key, version, delta, out) ==
    [NoCall EXCEPT !.op = op, !.key = key, !.version = version, !.delta = delta,
                   !.exc = out.exc, !.ret = out.val]

Frame ==
    /\ UNCHANGED <<default_timeout, workload>>
    /\ UNCHANGED batchVars
    /\ UNCHANGED <<calls, router>>
    /\ UNCHANGED poolVars

Set(key, value, timeout, version) ==
    LET out == set(store, default_timeout, RawKey(key), value, timeout, version, FALSE)
    IN  /\ store' = out.db
        /\ last' = Called("set", key, version, 0, out)
        /\ Frame

Add(key, value, timeout, version) ==
    LET out == add(store, default_timeout, RawKey(key), value, timeout, version)
    IN  /\ store' = out.db
        /\ last' = Called("add", key, version, 0, out)
        /\ Frame

Get(key, version) ==
    LET out == get(store, RawKey(key), PyNone, version)
    IN  /\ last' = Called("get", key, version, 0, out)
        /\ UNCHANGED store
        /\ Frame

Delete(key, version) ==
    LET out == delete(store, RawKey(key), version)
    IN  /\ store' = out.db
        /\ last' = Called("delete", key, version, 0, out)
        /\ Frame

Clear ==
    LET out == clear(store)
    IN  /\ store' = out.db
        /\ last' = Called("clear", "", VersionNone, 0, out)
        /\ Frame

Incr(key, delta, version) ==
    LET out == incr(store, default_timeout, RawKey(key), delta, version)
    IN  /\ out.val.n <= MaxInt
        /\ store' = out.db
        /\ last' = Called("incr", key, version, delta, out)
        /\ Frame

Ttl(key, version) ==
    LET out == ttl(store, RawKey(key), version)
    IN  /\ last' = Called("ttl", key, version, 0, out)
        /\ UNCHANGED store
        /\ Frame

IncrVersion(key, delta, version) ==
    LET out == incr_version(store, default_timeout, RawKey(key), delta, version)
    IN  /\ (IF version = VersionNone THEN ClientVersion ELSE version) + delta
              \in workload.versions
        /\ store' = out.db
        /\ last' = Called("incr_version", key, version, delta, out)
        /\ Frame

GetMany(keys, version) ==
    LET out == get_many(store, keys, version)
    IN  /\ last' = [NoCall EXCEPT !.op = "get_many", !.keys = keys,
                                  !.version = version, !.exc = out.exc,
                                  !.items = out.items]
        /\ UNCHANGED store
        /\ Frame

\* Time passes at the store: every expiry comes one second nearer, and a
\* key whose expiry has less than a second left is gone.
Expired(db) ==
    [k \in DOMAIN db |->
        IF db[k].present /\ db[k].ttl = 0 THEN Absent
        ELSE IF db[k].present /\ db[k].ttl > 0
            THEN [db[k] EXCEPT !.ttl = db[k].ttl - 1]
        ELSE db[k]]

Tick ==
    /\ \E k \in DOMAIN store : store[k].present /\ store[k].ttl >= 0
    /\ store' = Expired(store)
    /\ last' = [NoCall EXCEPT !.op = "tick"]
    /\ Frame

\* no set_many is running
NoBatch ==
    [pc |-> "idle", data |-> << >>, timeout |-> PyNone, version |-> VersionNone,
     i |-> 0, stack |-> << >>, direct |-> 0, executes |-> 0,
     before |-> << >>]

InitCacheVars ==
    /\ store = [k \in WireKeys |-> Absent]
    /\ default_timeout \in DefaultTimeouts
    /\ workload \in Workloads
    /\ last = NoCall
    /\ batch = NoBatch
    /\ pipeline_len_bool = FALSE
    /\ calls = << >>
    /\ router = NoRouter

CacheNext ==
    \/ \E k \in workload.keys, v \in Values, t \in Timeouts, ver \in VersionArgs :
         Set(k, v, t, ver)
    \/ \E k \in workload.keys, v \in Values, t \in Timeouts, ver \in VersionArgs :
         Add(k, v, t, ver)
    \/ \E k \in workload.keys, ver \in VersionArgs : Get(k, ver)
    \/ \E k \in workload.keys, ver \in VersionArgs : Delete(k, ver)
    \/ Clear
    \/ \E k \in workload.keys, d \in Deltas, ver \in VersionArgs : Incr(k, d, ver)
    \/ \E k \in workload.keys, ver \in VersionArgs : Ttl(k, ver)
    \/ \E k \in workload.keys, d \in Deltas, ver \in VersionArgs : IncrVersion(k, d, ver)
    \/ \E ks \in KeySeqs, ver \in VersionArgs : GetMany(ks, ver)
    \/ Tick

\* Constructions one after another: a constructor runs to its end before
\* the next one starts.
SeqNext == \E t \in Threads : Alone(t) /\ Step(t)

\* Constructions by concurrent threads, interleaved between the statements
\* of _get_connection_pool.
ThreadNext == \E t \in Threads : Step(t)

\* One constructed cache client and its store; no constructor is running.
Init == InitPoolVars({}) /\ InitCacheVars
\* NClients threads about to construct a client each; the store is not used.
InitClients ==
    /\ InitPoolVars(Threads)
    /\ store = [k \in WireKeys |-> Absent]
    /\ default_timeout \in DefaultTimeouts
    /\ workload \in {w \in Workloads : Cardinality(w.keys) = 1}
    /\ last = NoCall
    /\ batch = NoBatch
    /\ pipeline_len_bool = FALSE
    /\ calls = << >>
    /\ router = NoRouter

\* The dicts set_many is called with: entries in iteration order, no key twice
Datas ==
    UNION { { d \in [1..n -> [key : workload.keys, val : Values]] :
                \A i, j \in 1..n : d[i].key = d[j].key => i = j }
            : n \in 0..Cardinality(workload.keys) }

BatchFrame ==
    /\ UNCHANGED <<default_timeout, workload, last, pipeline_len_bool, calls, router>>
    /\ UNCHANGED poolVars

\* set_many: pipeline = self._client.pipeline()
SetManyBegin(data, timeout, version) ==
    /\ batch.pc = "idle"
    /\ batch' = [NoBatch EXCEPT !.pc = "queue", !.data = data, !.timeout = timeout,
                                !.version = version, !.i = 1, !.before = store]
    /\ UNCHANGED store
    /\ BatchFrame

\* set_many: one turn of the loop, self.set(key, value, timeout,
\* version=version, client=pipeline)
SetManyItem ==
    /\ batch.pc = "queue"
    /\ batch.i <= Len(batch.data)
    /\ LET e == batch.data[batch.i]
           k == make_key(RawKey(e.key), batch.version)
           t == ResolveTimeout(batch.timeout, default_timeout)
           cmds == _set_commands(k.s, Serialized(e.val), t)
       IN  IF PipelineBool(batch.stack, pipeline_len_bool)
               THEN /\ batch' = [batch EXCEPT !.stack = batch.stack \o cmds,
                                              !.i = batch.i + 1]
                    /\ UNCHANGED store
               ELSE /\ store' = set(store, default_timeout, RawKey(e.key), e.val,
                                    batch.timeout, batch.version, FALSE).db
                    /\ batch' = [batch EXCEPT !.direct = batch.direct + Len(cmds),
                                              !.i = batch.i + 1]
    /\ BatchFrame

\* set_many: pipeline.execute()
SetManyExecute ==
    /\ batch.pc = "queue"
    /\ batch.i > Len(batch.data)
    /\ store' = pipeline_execute(store, batch.stack, 1)
    /\ batch' = [batch EXCEPT !.pc = "done", !.executes = batch.executes + 1]
    /\ BatchFrame

\* set_many step by step, and another caller's get between its steps
BatchNext ==
    \/ \E d \in Datas, t \in Timeouts, ver \in VersionArgs : SetManyBegin(d, t, ver)
    \/ SetManyItem
    \/ SetManyExecute
    \/ \E k \in workload.keys, ver \in VersionArgs : Get(k, ver)

\* a client on either redis-py, about to call set_many; the store is empty
\* or holds what set('a', True, timeout=MaxTimeout) left
InitBatch ==
    /\ InitPoolVars({})
    /\ store \in { [k \in WireKeys |-> Absent],
                    [k \in WireKeys |->
                        IF k = KeyTable["a"][ClientVersion]
                            THEN Entry(PickleDumps(PyBool(TRUE)), MaxTimeout)
                            ELSE Absent] }
    /\ default_timeout \in DefaultTimeouts
    /\ workload \in Workloads
    /\ last = NoCall
    /\ batch = NoBatch
    /\ pipeline_len_bool \in BOOLEAN
    /\ calls = << >>
    /\ router = NoRouter

\* The version arguments of a call that names its key by an encoded key.
AnyVersion == {VersionNone} \cup workload.versions
KeyedTimeouts == {PyNone, PyInt(MaxTimeout)}

\* The verbs called with the CacheKey make_key(key, version) for their key
\* and with any version argument w.
KeyedSet(key, version, value, timeout, w) ==
    LET out == set(store, default_timeout, make_key(RawKey(key), version),
                   value, timeout, w, FALSE)
    IN  /\ store' = out.db
        /\ last' = Called("set", key, version, 0, out)
        /\ Frame

KeyedAdd(key, version, value, timeout, w) ==
    LET out == add(store, default_timeout, make_key(RawKey(key), version),
                   value, timeout, w)
    IN  /\ store' = out.db
        /\ last' = Called("add", key, version, 0, out)
        /\ Frame

KeyedGet(key, version, w) ==
    LET out == get(store, make_key(RawKey(key), version), PyNone, w)
    IN  /\ last' = Called("get", key, version, 0, out)
        /\ UNCHANGED store
        /\ Frame

KeyedDelete(key, version, w) ==
    LET out == delete(store, make_key(RawKey(key), version), w)
    IN  /\ store' = out.db
        /\ last' = Called("delete", key, version, 0, out)
        /\ Frame

KeyedIncr(key, version, delta, w) ==
    LET out == incr(store, default_timeout, make_key(RawKey(key), version), delta, w)
    IN  /\ out.val.n <= MaxInt
        /\ store' = out.db
        /\ last' = Called("incr", key, version, delta, out)
        /\ Frame

KeyedTtl(key, version, w) ==
    LET out == ttl(store, make_key(RawKey(key), version), w)
    IN  /\ last' = Called("ttl", key, version, 0, out)
        /\ UNCHANGED store
        /\ Frame

KeyedIncrVersion(key, version, delta, w) ==
    LET out == incr_version(store, default_timeout, make_key(RawKey(key), version),
                            delta, w)
    IN  /\ store' = out.db
        /\ last' = Called("incr_version", key, version, delta, out)
        /\ Frame

KeyedNext ==
    \/ \E k \in workload.keys, v \in workload.versions, x \in Values,
          t \in KeyedTimeouts, w \in AnyVersion : KeyedSet(k, v, x, t, w)
    \/ \E k \in workload.keys, v \in workload.versions, x \in Values,
          t \in KeyedTimeouts, w \in AnyVersion : KeyedAdd(k, v, x, t, w)
    \/ \E k \in workload.keys, v \in workload.versions, w \in AnyVersion :
          KeyedGet(k, v, w)
    \/ \E k \in workload.keys, v \in workload.versions, w \in AnyVersion :
          KeyedDelete(k, v, w)
    \/ \E k \in workload.keys, v \in workload.versions, d \in Deltas,
          w \in AnyVersion : KeyedIncr(k, v, d, w)
    \/ \E k \in workload.keys, v \in workload.versions, w \in AnyVersion :
          KeyedTtl(k, v, w)
    \/ \E k \in workload.keys, v \in workload.versions, d \in Deltas,
          w \in AnyVersion : KeyedIncrVersion(k, v, d, w)
    \/ Tick

-----------------------------------------------------------------------------
(* Concurrent callers: a verb runs command by command, and the commands of *)
(* the callers interleave at the store.                                    *)

Callers == 1..NCallers

NoCaller ==
    [op |-> "", pc |-> "idle", key |-> "", delta |-> 0, value |-> PyNone,
     timeout |-> PyNone, added |-> FALSE, exc |-> "", ret |-> PyNone,
     alone |-> TRUE]

CallFrame ==
    /\ UNCHANGED <<default_timeout, workload, last, router>>
    /\ UNCHANGED batchVars
    /\ UNCHANGED poolVars

\* cs after a write to key by c (0: by a client that is no caller): the
\* other calls in progress on key have had a concurrent writer
Disturbed(cs, c, key) ==
    [d \in DOMAIN cs |->
        IF d # c /\ cs[d].key = key /\ cs[d].pc \notin {"idle", "done"}
            THEN [cs[d] EXCEPT !.alone = FALSE]
            ELSE cs[d]]

AddValues == {PyInt(1), PyBool(TRUE)}
AddTimeouts == {DEFAULT_TIMEOUT, PyNone, PyInt(-1)}

\* add -> set, up to the call of _set: the timeout resolved and the value
\* serialized; _set returns False at once for a negative timeout
AddCall(c, key, value, timeout) ==
    /\ calls[c].pc = "idle"
    /\ LET t == ResolveTimeout(timeout, default_timeout)
           writes == t = PyNone \/ t.n >= 0
       IN  calls' = [calls EXCEPT ![c] =
                        [NoCaller EXCEPT !.op = "add", !.key = key,
                                         !.value = Serialized(value), !.timeout = t,
                                         !.pc = IF writes THEN "setnx" ELSE "done",
                                         !.ret = IF writes THEN PyNone ELSE PyBool(FALSE)]]
    /\ UNCHANGED store
    /\ CallFrame

\* _set, add-only: client.setnx(key, value)
AddSetnx(c) ==
    /\ calls[c].pc = "setnx"
    /\ LET k == make_key(RawKey(calls[c].key), VersionNone).s
           added == setnx_added(store, k)
           more == added /\ calls[c].timeout # PyNone /\ calls[c].timeout.n > 0
           cs == IF added THEN Disturbed(calls, c, calls[c].key) ELSE calls
       IN  /\ store' = client_setnx(store, k, calls[c].value)
           /\ calls' = [cs EXCEPT ![c].added = added,
                                  ![c].pc = IF more THEN "expire" ELSE "done",
                                  ![c].ret = IF more THEN PyNone ELSE PyBool(added)]
    /\ CallFrame

\* _set, add-only with a positive timeout: client.expire(key, timeout)
AddExpire(c) ==
    /\ calls[c].pc = "expire"
    /\ LET k == make_key(RawKey(calls[c].key), VersionNone).s
           cs == IF store[k].present THEN Disturbed(calls, c, calls[c].key) ELSE calls
       IN  /\ store' = client_expire(store, k, calls[c].timeout.n)
           /\ calls' = [cs EXCEPT ![c].pc = "done", ![c].ret = PyBool(calls[c].added)]
    /\ CallFrame

\* The caller stops between client.setnx and client.expire.
AddStop(c) ==
    /\ calls[c].pc = "expire"
    /\ calls' = [calls EXCEPT ![c].pc = "stopped"]
    /\ UNCHANGED store
    /\ CallFrame

\* delete(key) by another client
OtherDelete(key) ==
    /\ store' = delete(store, RawKey(key), VersionNone).db
    /\ calls' = Disturbed(calls, 0, key)
    /\ CallFrame

\* add by concurrent callers, one call each, beside another client's delete
\* and a reader's ttl
AddNext ==
    \/ \E c \in Callers, k \in workload.keys, v \in AddValues, t \in AddTimeouts :
          AddCall(c, k, v, t)
    \/ \E c \in Callers : AddSetnx(c)
    \/ \E c \in Callers : AddExpire(c)
    \/ \E c \in Callers : AddStop(c)
    \/ \E k \in workload.keys : OtherDelete(k)
    \/ \E k \in workload.keys : Ttl(k, VersionNone)
    \/ Tick

\* NCallers callers of one client on one key, none in a call
InitCallers ==
    /\ InitPoolVars({})
    /\ store = [k \in WireKeys |-> Absent]
    /\ default_timeout \in DefaultTimeouts
    /\ workload \in {w \in Workloads : Cardinality(w.keys) = 1}
    /\ last = NoCall
    /\ batch = NoBatch
    /\ pipeline_len_bool = FALSE
    /\ calls = [c \in Callers |-> NoCaller]
    /\ router = NoRouter

\* incr: make_key and client.exists(key), ValueError when the key is not there
IncrCall(c, key, delta) ==
    /\ calls[c].pc = "idle"
    /\ LET k == make_key(RawKey(key), VersionNone).s
           exists == client_exists(store, k)
       IN  calls' = [calls EXCEPT ![c] =
                        [NoCaller EXCEPT !.op = "incr", !.key = key, !.delta = delta,
                                         !.pc = IF exists THEN "incr" ELSE "done",
                                         !.exc = IF exists THEN "" ELSE "ValueError"]]
    /\ UNCHANGED store
    /\ CallFrame

\* incr: client.incr(key, delta); a ResponseError leads to the fallback
IncrCommand(c) ==
    /\ calls[c].pc = "incr"
    /\ LET k == make_key(RawKey(calls[c].key), VersionNone).s
       IN  IF incr_rejected(store, k)
               THEN /\ calls' = [calls EXCEPT ![c].pc = "get"]
                    /\ UNCHANGED store
               ELSE /\ store' = client_incr(store, k, calls[c].delta)
                    /\ calls' = [Disturbed(calls, c, calls[c].key) EXCEPT
                                     ![c].pc = "done",
                                     ![c].ret = PyInt(incr_reply(store, k, calls[c].delta))]
    /\ CallFrame

\* incr, fallback: value = self.get(key) + delta
IncrGet(c) ==
    /\ calls[c].pc = "get"
    /\ LET k == make_key(RawKey(calls[c].key), VersionNone)
           g == get(store, k, PyNone, VersionNone)
           sum == IF g.exc = "" THEN Plus(g.val, calls[c].delta) ELSE g
       IN  calls' = [calls EXCEPT ![c].pc = IF sum.exc = "" THEN "set" ELSE "done",
                                  ![c].value = sum.val,
                                  ![c].exc = sum.exc]
    /\ UNCHANGED store
    /\ CallFrame

\* incr, fallback: self.set(key, value); return value
IncrSet(c) ==
    /\ calls[c].pc = "set"
    /\ LET k == make_key(RawKey(calls[c].key), VersionNone)
       IN  store' = set(store, default_timeout, k, calls[c].value, DEFAULT_TIMEOUT,
                        VersionNone, FALSE).db
    /\ calls' = [Disturbed(calls, c, calls[c].key) EXCEPT
                     ![c].pc = "done", ![c].ret = calls[c].value]
    /\ CallFrame

\* clear() by another client
OtherClear ==
    /\ store' = clear(store).db
    /\ calls' = [d \in DOMAIN calls |->
                    IF calls[d].pc \notin {"idle", "done"}
                        THEN [calls[d] EXCEPT !.alone = FALSE] ELSE calls[d]]
    /\ CallFrame

IncrSteps ==
    \/ \E c \in Callers, k \in workload.keys, d \in Deltas : IncrCall(c, k, d)
    \/ \E c \in Callers : IncrCommand(c)
    \/ \E c \in Callers : IncrGet(c)
    \/ \E c \in Callers : IncrSet(c)

\* incr by concurrent callers, one call each, no other writer
IncrNext == IncrSteps

\* incr by concurrent callers beside another client's delete and clear and
\* the expiry of the key
IncrRaceNext ==
    \/ IncrSteps
    \/ \E k \in workload.keys : OtherDelete(k)
    \/ OtherClear
    \/ Tick

\* What the key of the callers holds at the start: the integer 0 (held as
\* raw digits) or the float 0.5 (held pickled), with or without an expiry.
InitialEntries ==
    { Entry(v, t) : v \in {AsciiBytes(0), PickleDumps(PyFloat(1))},
                    t \in {-1, MaxTimeout} }

InitIncr ==
    /\ InitPoolVars({})
    /\ \E e \in InitialEntries :
          store = [k \in WireKeys |->
                      IF k = KeyTable["a"][ClientVersion] THEN e ELSE Absent]
    /\ default_timeout \in DefaultTimeouts
    /\ workload \in {w \in Workloads : Cardinality(w.keys) = 1}
    /\ last = NoCall
    /\ batch = NoBatch
    /\ pipeline_len_bool = FALSE
    /\ calls = [c \in Callers |-> NoCaller]
    /\ router = NoRouter

\* get_handlers about to run over the handler class of one module; no
\* cache is in use
InitRouter ==
    /\ InitPoolVars({})
    /\ store = [k \in WireKeys |-> Absent]
    /\ default_timeout \in DefaultTimeouts
    /\ workload \in {w \in Workloads : Cardinality(w.keys) = 1}
    /\ last = NoCall
    /\ batch = NoBatch
    /\ pipeline_len_bool = FALSE
    /\ calls = << >>
    /\ router \in { [NoRouter EXCEPT !.routes = r] : r \in RouteLists }

\* The cache verbs on one client.
Spec == Init /\ [][CacheNext]_vars
\* The registration loop of get_handlers.
SpecRouter == InitRouter /\ [][RouterNext]_vars
\* incr, command by command, by concurrent callers.
SpecIncr == InitIncr /\ [][IncrNext]_vars
SpecIncrRace == InitIncr /\ [][IncrRaceNext]_vars
\* add, command by command, by concurrent callers.
SpecAdd == InitCallers /\ [][AddNext]_vars
\* The cache verbs called with encoded keys.
SpecKeyed == Init /\ [][KeyedNext]_vars
\* set_many and a reader.
SpecBatch == InitBatch /\ [][BatchNext]_vars
\* Client constructions, sequential and concurrent.
SpecSeq == InitClients /\ [][SeqNext]_vars
SpecThreads == InitClients /\ [][ThreadNext]_vars

-----------------------------------------------------------------------------
(* Properties of the pool registry *)

PoolsOf(id) == {i \in 1..Len(pools) : pools[i] = id}
Constructed(t) == pc[t] = "done"

\* C1: with constructions one after another, at most one pool is ever
\* instantiated per connection identity, every pool instantiated is the
\* registry's entry for its identity (so no entry is replaced or removed;
\* the pool of a constructor that has not stored it yet is the one
\* exception), and every constructed client holds the registry's pool for
\* its identity.
C1_OnePoolPerIdentity ==
    /\ \A id \in Identities : Cardinality(PoolsOf(id)) <= 1
    /\ \A i \in 1..Len(pools) :
         \/ connection_pools[pools[i]] = i
         \/ \E t \in Threads : pc[t] = "store" /\ made[t] = i
    /\ \A t \in Threads :
         Constructed(t) =>
             /\ client_pool[t] # 0
             /\ client_pool[t] = connection_pools[ident[t]]

\* C1 witness: two clients were constructed with the same identity, one
\* pool was made for it and both hold it.
C1_Witness ==
    \E t, u \in Threads :
        /\ t # u
        /\ Constructed(t) /\ Constructed(u)
        /\ ident[t] = ident[u]
        /\ client_pool[t] = client_pool[u]
        /\ Cardinality(PoolsOf(ident[t])) = 1

\* C2: with concurrent calls, exactly one pool is created per identity and
\* every caller holds the pool stored in the registry.
C2_SingleWinner ==
    /\ \A id \in Identities : Cardinality(PoolsOf(id)) <= 1
    /\ \A t \in Threads :
         Constructed(t) => client_pool[t] = connection_pools[ident[t]]

-----------------------------------------------------------------------------
(* Properties of the cache verbs *)

\* the wire key the last call names
LastKey == BaseMakeKey(last.key, last.version)
\* the resolved version of a version argument
VersionOf(version) == IF version = VersionNone THEN ClientVersion ELSE version
\* the Python value an entry's bytes stand for
ValueHeld(e) ==
    IF e.val.enc = "ascii" THEN PyInt(e.val.n)
    ELSE [t |-> e.val.pt, n |-> e.val.n, s |-> e.val.s, enc |-> "", pt |-> ""]
\* the bytes a value is held as
WireOf(v) == IF v.t = "int" THEN AsciiBytes(v.n) ELSE PickleDumps(v)
\* the whole seconds of a timeout argument: the client's default for
\* DEFAULT, None for None, else the number cut toward zero
Seconds(t) ==
    LET r == IF t = DEFAULT_TIMEOUT THEN default_timeout ELSE t
    IN  IF r = PyNone THEN PyNone
        ELSE IF r.t = "float"
            THEN PyInt(IF r.n >= 0 THEN r.n \div 2 ELSE -((-r.n) \div 2))
        ELSE r

\* C3: set(k, v) of a non-boolean integer v holds v on the wire as the raw
\* scalar, and a get(k) that follows it returns v.
C3_IntegerRoundTrip ==
    [][ /\ last'.op = "set" =>
             \A v \in Values, t \in Timeouts :
                 (v.t = "int" /\ Set(last'.key, v, t, last'.version)
                             /\ last'.ret = PyBool(TRUE))
                     => store'[BaseMakeKey(last'.key, last'.version)].val = AsciiBytes(v.n)
        /\ (/\ last.op = "set" /\ last.ret = PyBool(TRUE)
            /\ last'.op = "get" /\ last'.key = last.key /\ last'.version = last.version
            /\ store[LastKey].val.enc = "ascii")
               => (last'.exc = "" /\ last'.ret = PyInt(store[LastKey].val.n)) ]_vars

\* C4: add(k, v) on a key that is present returns False and leaves the
\* store as it is; on an absent key (with a timeout that is not negative)
\* it returns True and the store holds v under k, all other keys untouched.
C4_AddOnlyIfAbsent ==
    [][ (last'.op = "add" /\ last'.version = VersionNone) =>
            \A v \in Values, t \in Timeouts :
                Add(last'.key, v, t, last'.version) =>
                    LET w == BaseMakeKey(last'.key, VersionNone)
                        r == Seconds(t)
                    IN  IF store[w].present
                            THEN last'.ret = PyBool(FALSE) /\ store' = store
                        ELSE IF r = PyNone \/ r.n >= 0
                            THEN /\ last'.ret = PyBool(TRUE)
                                 /\ store'[w].present
                                 /\ store'[w].val = WireOf(v)
                                 /\ \A o \in WireKeys \ {w} : store'[o] = store[o]
                        ELSE TRUE ]_vars

\* C4 witness: add was called on a key that is present and returned False.
C4_Witness ==
    /\ last.op = "add" /\ last.version = VersionNone
    /\ last.ret = PyBool(FALSE)
    /\ store[LastKey].present

StepKey == BaseMakeKey(last'.key, last'.version)
\* a default no stored value equals
Miss == PyStr("miss")

\* C6: incr on a key that does not exist raises the key-not-found error and
\* leaves the store as it is; on a key holding the integer n it returns
\* n + delta, and a get(k) that follows returns n + delta.
C6_IncrExistingOnly ==
    [][ last'.op = "incr" =>
            IF ~store[StepKey].present
                THEN last'.exc = "ValueError" /\ store' = store
            ELSE store[StepKey].val.enc = "ascii" =>
                    /\ last'.exc = ""
                    /\ last'.ret = PyInt(store[StepKey].val.n + last'.delta)
                    /\ get(store', RawKey(last'.key), Miss, last'.version)
                           = Return(PyInt(store[StepKey].val.n + last'.delta)) ]_vars

\* C7: ttl(k) is 0 when k does not exist, None when k exists with no
\* expiry, and a positive number of seconds, not above the largest timeout
\* a key was set with, when k exists with an expiry.
C7_TtlThreeWay ==
    last.op = "ttl" =>
        /\ last.exc = ""
        /\ ~store[LastKey].present => last.ret = PyInt(0)
        /\ (store[LastKey].present /\ store[LastKey].ttl = -1) => last.ret = PyNone
        /\ (store[LastKey].present /\ store[LastKey].ttl >= 0) =>
               (last.ret.t = "int" /\ last.ret.n > 0 /\ last.ret.n <= MaxTimeout)

\* C8: for a key present under version v with value x and a remaining
\* expiry t > 0, incr_version returns v + delta; afterwards get under
\* v + delta returns x, get under v returns the caller's default, and the
\* new key's remaining expiry is above 0 and not above t.
C8_IncrVersionMoves ==
    [][ LET v == VersionOf(last'.version)
            old == KeyTable[last'.key][v]
            new == KeyTable[last'.key][v + last'.delta]
        IN  (last'.op = "incr_version" /\ store[old].present /\ store[old].ttl > 0) =>
                /\ last'.exc = ""
                /\ last'.ret = PyInt(v + last'.delta)
                /\ get(store', RawKey(last'.key), Miss, v + last'.delta)
                       = Return(ValueHeld(store[old]))
                /\ get(store', RawKey(last'.key), Miss, v) = Return(Miss)
                /\ store'[new].ttl > 0
                /\ store'[new].ttl <= store[old].ttl ]_vars

\* C9: incr_version raises the key-not-found error exactly when the key is
\* absent under version v, and then it leaves the store as it is.
C9_IncrVersionNotFound ==
    [][ LET old == KeyTable[last'.key][VersionOf(last'.version)]
        IN  last'.op = "incr_version" =>
                /\ (last'.exc = "ValueError") <=> ~store[old].present
                /\ (last'.exc = "ValueError") => store' = store ]_vars

\* The mapping get_many is to return: the keys of the input that are
\* present, in the order they first come in the input, each with its value.
RECURSIVE ExpectedItems(_, _, _, _)
ExpectedItems(db, keys, version, i) ==
    IF i > Len(keys) THEN << >>
    ELSE LET e == db[BaseMakeKey(keys[i], version)]
             first == \A j \in 1..(i - 1) : keys[j] # keys[i]
         IN  (IF e.present /\ first
                  THEN << [key |-> keys[i], val |-> ValueHeld(e)] >>
                  ELSE << >>) \o ExpectedItems(db, keys, version, i + 1)

\* C10: get_many returns the mapping from the caller's keys that are
\* present under the version to their values, in the order of the input;
\* absent keys are left out.
C10_GetManyPresentKeys ==
    last.op = "get_many" =>
        /\ last.exc = ""
        /\ last.items = ExpectedItems(store, last.keys, last.version, 1)

-----------------------------------------------------------------------------
(* Properties of set_many *)

\* set on every entry of data in its order, from position i on
RECURSIVE SetEach(_, _, _, _, _)
SetEach(db, data, timeout, version, i) ==
    IF i > Len(data) THEN db
    ELSE SetEach(set(db, default_timeout, RawKey(data[i].key), data[i].val,
                     timeout, version, FALSE).db,
                 data, timeout, version, i + 1)

\* C11: set_many queues one write per entry on one pipeline and executes it
\* once: no step before the execute changes the store and no write goes to
\* the store outside the pipeline; when it has returned the store is what
\* set on each entry in its order makes of it, and get(key, version) yields
\* the value of every entry written.
C11_SetManyOneBatch ==
    /\ [][ (batch.pc = "queue" /\ batch'.pc = "queue") => store' = store ]_vars
    /\ [](batch.pc = "done" =>
            /\ batch.executes = 1
            /\ batch.direct = 0
            /\ store = SetEach(batch.before, batch.data, batch.timeout, batch.version, 1)
            /\ \A i \in 1..Len(batch.data) :
                  LET r == Seconds(batch.timeout)
                  IN  (r = PyNone \/ r.n >= 0) =>
                          get(store, RawKey(batch.data[i].key), Miss, batch.version)
                              = Return(batch.data[i].val))

-----------------------------------------------------------------------------
(* Properties of the key encoding *)

\* the wire key of the encoded key the call of this step names
StepWire == KeyTable[last'.key][VersionOf(last'.version)]

\* C12: make_key of an encoded key is that key, whatever the version given,
\* and a verb called with an encoded key acts on that wire key only: no
\* other key of the store changes, and get and ttl answer what they answer
\* for the raw key under the version the key was encoded with.
C12_MakeKeyIdempotent ==
    [][ /\ \A k \in workload.keys, v \in workload.versions, w \in AnyVersion :
              make_key(make_key(RawKey(k), v), w) = make_key(RawKey(k), v)
        /\ last'.op \in {"set", "add", "get", "delete", "incr", "ttl", "incr_version"} =>
              /\ \A o \in WireKeys \ {StepWire} : store'[o] = store[o]
              /\ last'.op = "get" =>
                    [exc |-> last'.exc, val |-> last'.ret]
                        = get(store, RawKey(last'.key), PyNone, VersionOf(last'.version))
              /\ last'.op = "ttl" =>
                    last'.ret = ttl(store, RawKey(last'.key), VersionOf(last'.version)).val
              /\ (last'.op \in {"set", "delete"} /\ last'.ret # PyBool(FALSE)) =>
                    store'[StepWire].present = (last'.op = "set") ]_vars

\* C12 witness: a set called with the key encoded under a version that is
\* not the client's wrote that key and left the key under the client's
\* version absent.
C12_Witness ==
    /\ last.op = "set" /\ last.version # ClientVersion /\ last.version # VersionNone
    /\ store[KeyTable[last.key][last.version]].present
    /\ ~store[KeyTable[last.key][ClientVersion]].present

-----------------------------------------------------------------------------
(* Properties of client construction *)

\* the arguments have a port or a db that is not an integer, or a pool or
\* parser selector that does not resolve
Misconfigured(cfg) ==
    \/ cfg.server.colon /\ cfg.server.port \notin IntTexts
    \/ cfg.db \notin IntTexts
    \/ cfg.pool_class \notin Importable
    \/ cfg.parser_class # "None" /\ cfg.parser_class \notin Importable

\* C13: a construction with such arguments ends in ConfigError in its first
\* step, before any lookup: the registry and the pools are as they were,
\* and the thread never holds a pool or makes one.
C13_ConfigErrorAtConstruction ==
    /\ [][ \A t \in Threads :
              (pc[t] = "new" /\ pc'[t] # "new" /\ Misconfigured(params'[t])) =>
                  /\ pc'[t] = "ConfigError"
                  /\ connection_pools' = connection_pools
                  /\ pools' = pools ]_vars
    /\ [](\A t \in Threads :
              (pc[t] # "new" /\ Misconfigured(params[t])) =>
                  /\ pc[t] \notin {"lookup", "create", "store", "return", "done"}
                  /\ made[t] = 0 /\ client_pool[t] = 0)

-----------------------------------------------------------------------------
(* Properties of incr_version and of incr, one caller *)

\* C14: incr_version of a key present under version v leaves its value
\* under v + delta with the expiry it had: none when it had none, else one
\* that is not longer, a key with less than a second left included.
C14_IncrVersionKeepsTtl ==
    [][ LET v == VersionOf(last'.version)
            old == KeyTable[last'.key][v]
            new == KeyTable[last'.key][v + last'.delta]
        IN  (last'.op = "incr_version" /\ store[old].present) =>
                /\ store'[new].present
                /\ store'[new].val = store[old].val
                /\ store[old].ttl = -1 => store'[new].ttl = -1
                /\ store[old].ttl >= 0 =>
                      (store'[new].ttl >= 0 /\ store'[new].ttl <= store[old].ttl) ]_vars

-----------------------------------------------------------------------------
(* Properties of the verbs under concurrent callers *)

\* the wire key of caller c's call
CallKey(c) == BaseMakeKey(calls[c].key, VersionNone)

\* C15: add with a positive timeout is two commands.  The first writes the
\* key, with no expiry, only when it is absent, and the second follows only
\* when the first wrote; between the two, and when the caller has stopped
\* there, the key is present with no expiry; when the second has run and no
\* other writer came between, the key holds the value with the expiry asked
\* for.
C15_AddTwoSteps ==
    /\ [][ \A c \in Callers :
              (calls[c].pc = "setnx" /\ calls'[c].pc # "setnx") =>
                  IF store[CallKey(c)].present
                      THEN /\ store' = store
                           /\ calls'[c].pc = "done" /\ calls'[c].ret = PyBool(FALSE)
                      ELSE /\ store' = [store EXCEPT ![CallKey(c)] =
                                            Entry(Encode(calls[c].value), -1)]
                           /\ calls'[c].pc =
                                 IF calls[c].timeout # PyNone /\ calls[c].timeout.n > 0
                                     THEN "expire" ELSE "done" ]_vars
    /\ [][ \A c \in Callers :
              (calls[c].pc = "expire" /\ calls'[c].pc = "done") =>
                  /\ calls[c].added
                  /\ calls'[c].ret = PyBool(TRUE)
                  /\ calls[c].alone =>
                        store'[CallKey(c)] =
                            Entry(Encode(calls[c].value), calls[c].timeout.n) ]_vars
    /\ [](\A c \in Callers :
              (calls[c].pc \in {"expire", "stopped"} /\ calls[c].alone) =>
                  (store[CallKey(c)].present /\ store[CallKey(c)].ttl = -1))

\* C15 witness: a caller is between the two commands of an add with a
\* positive timeout, and a reader's ttl of the key has just answered that
\* the key has no expiry.
C15_Witness ==
    \E c \in Callers :
        /\ calls[c].pc = "expire" /\ calls[c].timeout.n > 0
        /\ last.op = "ttl" /\ last.key = calls[c].key
        /\ last.ret = PyInt(-1)

\* the deltas of the callers in S, summed
RECURSIVE SumDeltas(_)
SumDeltas(S) ==
    IF S = {} THEN 0
    ELSE LET c == CHOOSE x \in S : TRUE
         IN  calls[c].delta + SumDeltas(S \ {c})

\* the callers whose incr has returned a value
Incremented == {c \in Callers : calls[c].op = "incr" /\ calls[c].pc = "done"
                                   /\ calls[c].exc = ""}

\* C16: incr takes the fallback exactly when the store rejects the
\* increment of a value that is no raw integer; the fallback is a get, a
\* sum and a set in separate steps and returns the sum it computed.  While
\* the key holds a raw integer its value is the initial value plus the
\* deltas of all the increments made.
C16_IncrFallbackNotAtomic ==
    /\ [][ \A c \in Callers :
              /\ (calls[c].pc = "incr" /\ calls'[c].pc # "incr") =>
                    IF store[CallKey(c)].val.enc = "ascii"
                        THEN /\ calls'[c].pc = "done"
                             /\ calls'[c].ret =
                                   PyInt(store[CallKey(c)].val.n + calls[c].delta)
                             /\ store'[CallKey(c)].val =
                                   AsciiBytes(store[CallKey(c)].val.n + calls[c].delta)
                        ELSE calls'[c].pc = "get" /\ store' = store
              /\ (calls[c].pc = "get" /\ calls'[c].pc # "get") =>
                    /\ store' = store
                    /\ calls'[c].pc = "set"
                    /\ calls'[c].value =
                          PyFloat(ValueHeld(store[CallKey(c)]).n + 2 * calls[c].delta)
              /\ (calls[c].pc = "set" /\ calls'[c].pc # "set") =>
                    /\ store'[CallKey(c)].val = WireOf(calls[c].value)
                    /\ calls'[c].pc = "done"
                    /\ calls'[c].ret = calls[c].value ]_vars
    /\ [](\A k \in WireKeys :
              (store[k].present /\ store[k].val.enc = "ascii") =>
                  store[k].val.n = SumDeltas(Incremented))

\* C16 witness: two callers' incr of the key holding the float 0.5 have both
\* returned, and the key holds 0.5 plus the delta of one of them only.
C16_Witness ==
    \E c, d \in Callers :
        /\ c # d
        /\ c \in Incremented /\ d \in Incremented
        /\ calls[c].key = calls[d].key
        /\ store[CallKey(c)].val = PickleDumps(PyFloat(1 + 2 * calls[c].delta))

\* C18: an incr either raises the key-not-found error or increments an
\* entry that exists when the increment command runs: the command never
\* runs on a key that is not there, so no key holding just delta appears.
C18_IncrNeverCreates ==
    [][ \A c \in Callers :
          (calls[c].pc = "incr" /\ calls'[c].pc # "incr") =>
              store[CallKey(c)].present ]_vars

-----------------------------------------------------------------------------
(* Properties of add under a version and of incr's effect on the expiry *)

\* C17: add(key, value, timeout, version=v) with v not the client's version
\* tests and writes the key under v: the key under the client's version is
\* unchanged, add returns True exactly when the key under v was absent (the
\* timeout not being negative), and then the key under v is present.
C17_AddUnderVersion ==
    [][ LET mine == KeyTable[last'.key][ClientVersion]
            theirs == KeyTable[last'.key][last'.version]
        IN  (last'.op = "add" /\ last'.version \notin {VersionNone, ClientVersion}) =>
                /\ store'[mine] = store[mine]
                /\ last'.ret = PyBool(TRUE) =>
                      (~store[theirs].present /\ store'[theirs].present)
                /\ store[theirs].present => last'.ret = PyBool(FALSE) ]_vars

\* C19: incr of an existing key changes the key's value only: the expiry
\* it has afterwards is the expiry it had.
C19_IncrKeepsExpiry ==
    [][ (last'.op = "incr" /\ store[StepKey].present) =>
            (store'[StepKey].present /\ store'[StepKey].ttl = store[StepKey].ttl) ]_vars

-----------------------------------------------------------------------------
(* Properties of route registration *)

\* the functions registered so far
Registered == 1..(router.i - 1)

\* C20: for every function registered, with path p and method m, the
\* handlers dict has an entry for p whose class binds m to that function;
\* and no entry's class binds a method to a function decorated for
\* another path.
C20_RoutesFaithful ==
    /\ \A f \in Registered :
          LET r == router.routes[f]
          IN  /\ router.handlers[r.path] # 0
              /\ GetAttr(router.classes, router.handlers[r.path], r.method) = f
    /\ \A p \in Paths, m \in Methods :
          LET f == GetAttr(router.classes, router.handlers[p], m)
          IN  f # 0 => router.routes[f].path = p

====
